---------------------------- MODULE Spec2Model ----------------------------
(***************************************************************************)
(* Model of livekit-agent/server.py: a Flask service with three routes,    *)
(* GET /health, POST /token (generate_token) and GET /getToken (getToken). *)
(* Each request occupies one request slot: a client sends it (the slot     *)
(* becomes pending), then the route's handler runs to completion and the   *)
(* slot holds the response together with the side effects the handler had  *)
(* (configuration reads, token construction, signing, log lines).          *)
(*                                                                         *)
(* Python values are modelled as strings.  None and "key not present" are  *)
(* the two reserved strings NoneVal and Absent.  The signing library       *)
(* (livekit.api) and the body parser (flask.Request.get_json) are not part *)
(* of the source: wherever they may either return or raise, the model      *)
(* takes both outcomes.                                                    *)
(***************************************************************************)
EXTENDS Integers, Sequences, FiniteSets, TLC

VARIABLES env, state, request, response, effects

vars == <<env, state, request, response, effects>>

\* Number of request slots of Spec, which draws requests from the whole input space.
MaxReq == 1

\* Number of request slots of SpecConcurrent (requests in flight at the same time).
MaxInFlight == 2

Slots == 1..MaxReq
ConcurrentSlots == 1..MaxInFlight

-----------------------------------------------------------------------------
(* Python values *)

NoneVal == "<None>"
Absent == "<absent>"

\* Variant: a test against None alone (`x is None`) instead of `not x`.
TruthyIsNotNone(v) == v # NoneVal

\* Python truthiness of a str-or-None value, as used by `not x`.
Truthy(v) == v # NoneVal /\ v # ""

-----------------------------------------------------------------------------
(* Process configuration: os.environ after load_dotenv() *)

KeyValues == {Absent, "", "APIkey"}
SecretValues == {Absent, "", "s3cret"}
UrlValues == {Absent, "", "wss://example.livekit.cloud"}

Environments ==
  [LIVEKIT_API_KEY : KeyValues, LIVEKIT_API_SECRET : SecretValues, LIVEKIT_URL : UrlValues]

DefaultServerUrl == "ws://localhost:7880"

\* Variant: `os.getenv(name) or default`, the default also for an empty value.
getenv_or_default(e, name, default) == IF e[name] \in {Absent, ""} THEN default ELSE e[name]

\* os.getenv(name, default): the default only when the variable is unset.
getenv(e, name, default) == IF e[name] = Absent THEN default ELSE e[name]

-----------------------------------------------------------------------------
(* Requests *)

RoomValues == {Absent, "", "test-room"}
NameValues == {Absent, "", "alice"}
IdentityValues == {Absent, NoneVal, "", "id-alice"}

\* The JSON object of a POST /token body: a key is either absent or carries a value.
JsonObjects ==
  [roomName : RoomValues, participantName : NameValues, participantIdentity : IdentityValues]

EmptyObject ==
  [roomName |-> Absent, participantName |-> Absent, participantIdentity |-> Absent]

\* kind "none": no body, or a body that is not parsable JSON;
\* kind "null": the JSON literal null; kind "array": a non-empty JSON array;
\* kind "object": a JSON object (the empty object when every key is absent).
TokenRequests ==
  {[endpoint |-> "token", kind |-> k, obj |-> EmptyObject, room |-> Absent, participant |-> Absent] :
      k \in {"none", "null", "array"}}
  \cup
  {[endpoint |-> "token", kind |-> "object", obj |-> o, room |-> Absent, participant |-> Absent] :
      o \in JsonObjects}

\* GET /getToken?room=..&participant=..: a query parameter is absent or a string.
GetTokenRequests ==
  {[endpoint |-> "getToken", kind |-> "query", obj |-> EmptyObject, room |-> r, participant |-> p] :
      r \in RoomValues, p \in NameValues}

HealthRequest ==
  [endpoint |-> "health", kind |-> "query", obj |-> EmptyObject, room |-> Absent, participant |-> Absent]

NoRequest ==
  [endpoint |-> "none", kind |-> "none", obj |-> EmptyObject, room |-> Absent, participant |-> Absent]

\* dict.get(key, default): the default only when the key is not in the dict.
dict_get(d, key, default) == IF d[key] = Absent THEN default ELSE d[key]

\* Python truthiness of a dict: non-empty.
DictTruthy(d) == \E k \in DOMAIN d : d[k] # Absent

\* request.args.get(key, default)
args_get(r, key, default) == IF r[key] = Absent THEN default ELSE r[key]

-----------------------------------------------------------------------------
(* Responses and side effects *)

NoResponse == [status |-> 0, mimetype |-> "none", body |-> [none |-> TRUE]]

NoEffects ==
  [parser |-> "none", envRead |-> FALSE, constructed |-> FALSE, signing |-> "none", log |-> <<>>]

\* jsonify(body), status
jsonify(body, status) == [status |-> status, mimetype |-> "application/json", body |-> body]

\* A view returning a bare str: Flask answers 200 with the string as the body.
text_response(body) == [status |-> 200, mimetype |-> "text/html", body |-> body]

\* logger.info / logger.error
LogLine(level, msg) == [level |-> level, msg |-> msg]

\* Variant: the line is dropped (a logger below its level).
WithLogDropped(eff, line) == eff

\* The handler's effects so far, with one more line written to the logger.
WithLog(eff, line) == [eff EXCEPT !.log = Append(@, line)]

-----------------------------------------------------------------------------
(* Token construction: the calls the handlers make on livekit.api *)

\* api.VideoGrants(room_join=True, room=room_name, can_publish=True,
\*                 can_subscribe=True, can_publish_data=True)
FullGrants(room_name) ==
  [room_join |-> TRUE, room |-> room_name,
   can_publish |-> TRUE, can_subscribe |-> TRUE, can_publish_data |-> TRUE]

\* Variant: the legacy endpoint built with the production endpoint's grants.
JoinOnlyGrantsWidened(room_name) ==
  [room_join |-> TRUE, room |-> room_name,
   can_publish |-> TRUE, can_subscribe |-> TRUE, can_publish_data |-> TRUE]

\* api.VideoGrants(room_join=True, room=room_name)
JoinOnlyGrants(room_name) == [room_join |-> TRUE, room |-> room_name]

\* api.AccessToken(api_key, api_secret).with_identity(..).with_name(..).with_grants(..)
AccessToken(api_key, api_secret, identity, name, grants) ==
  [api_key |-> api_key, api_secret |-> api_secret,
   identity |-> identity, name |-> name, grants |-> grants]

\* token.to_jwt() when it returns: header.claims.signature, three segments.
to_jwt(tok) ==
  << [alg |-> "HS256", typ |-> "JWT"],
     [iss |-> tok.api_key, sub |-> tok.identity, name |-> tok.name, video |-> tok.grants],
     [signed_with |-> tok.api_secret] >>

\* What the body parser and the signing library may do.
ParserOutcomes(kind) == IF kind = "none" THEN {"returns", "raises"} ELSE {"returns"}
SigningOutcomes == {"returns", "raises"}

\* str(e) of the exceptions that can reach the handlers' except clauses.
ParserErrorDetail == "415 Unsupported Media Type"
AttributeErrorDetail == "'list' object has no attribute 'get'"
SigningErrorDetail == "ValueError raised by AccessToken.to_jwt"

\* Variant: the except clause answers with str(e).
InternalErrorLeaking(eff, prefix, detail) ==
  [response |-> [status |-> 500, mimetype |-> "application/json", body |-> [error |-> detail]],
   effects |-> [eff EXCEPT !.log = Append(@, [level |-> "error", msg |-> <<prefix, detail>>])]]

\* except Exception as e: logger.error(prefix + str(e)); 500 Internal server error
InternalError(eff, prefix, detail) ==
  [response |-> jsonify([error |-> "Internal server error"], 500),
   effects |-> WithLog(eff, LogLine("error", <<prefix, detail>>))]

-----------------------------------------------------------------------------
(* Handlers, as functions of the request, the configuration and the outcomes *)
(* of the library calls.  Each yields the response and the side effects.     *)

health_result == [response |-> jsonify([status |-> "healthy"], 200), effects |-> NoEffects]

generate_token_result(r, e, parsing, signing) ==
  LET prefix == "Error generating token: "
      eff0 == [NoEffects EXCEPT !.parser = parsing]
  IN
  IF parsing = "raises"
  THEN InternalError(eff0, prefix, ParserErrorDetail)
  ELSE
  \* data = request.get_json(); if not data: ...
  IF r.kind \in {"none", "null"} \/ (r.kind = "object" /\ ~DictTruthy(r.obj))
  THEN [response |-> jsonify([error |-> "No JSON data provided"], 400), effects |-> eff0]
  ELSE
  \* data.get on a value that is no dict
  IF r.kind = "array"
  THEN InternalError(eff0, prefix, AttributeErrorDetail)
  ELSE
  LET room_name == dict_get(r.obj, "roomName", NoneVal)
      participant_name == dict_get(r.obj, "participantName", NoneVal)
      participant_identity == dict_get(r.obj, "participantIdentity", participant_name)
  IN
  IF ~Truthy(room_name) \/ ~Truthy(participant_name)
  THEN [response |-> jsonify([error |-> "roomName and participantName are required"], 400),
        effects |-> eff0]
  ELSE
  LET api_key == getenv(e, "LIVEKIT_API_KEY", NoneVal)
      api_secret == getenv(e, "LIVEKIT_API_SECRET", NoneVal)
      server_url == getenv(e, "LIVEKIT_URL", DefaultServerUrl)
      eff1 == [eff0 EXCEPT !.envRead = TRUE]
  IN
  IF ~Truthy(api_key) \/ ~Truthy(api_secret)
  THEN [response |-> jsonify([error |-> "Server configuration error"], 500),
        effects |-> WithLog(eff1, LogLine("error", <<"Missing LIVEKIT_API_KEY or LIVEKIT_API_SECRET">>))]
  ELSE
  LET token == AccessToken(api_key, api_secret, participant_identity, participant_name,
                           FullGrants(room_name))
      eff2 == [eff1 EXCEPT !.constructed = TRUE, !.signing = signing]
  IN
  IF signing = "raises"
  THEN InternalError(eff2, prefix, SigningErrorDetail)
  ELSE
  [response |-> jsonify([serverUrl |-> server_url,
                         roomName |-> room_name,
                         participantName |-> participant_name,
                         participantToken |-> to_jwt(token)], 200),
   effects |-> WithLog(eff2, LogLine("info",
                 <<"Generated token for participant '", participant_name,
                   "' in room '", room_name, "'">>))]

getToken_result(r, e, signing) ==
  LET room_name == args_get(r, "room", "my-room")
      participant_name == args_get(r, "participant", "anonymous")
      api_key == getenv(e, "LIVEKIT_API_KEY", NoneVal)
      api_secret == getenv(e, "LIVEKIT_API_SECRET", NoneVal)
      eff1 == [NoEffects EXCEPT !.envRead = TRUE]
  IN
  IF ~Truthy(api_key) \/ ~Truthy(api_secret)
  THEN [response |-> jsonify([error |-> "Server configuration error"], 500), effects |-> eff1]
  ELSE
  LET token == AccessToken(api_key, api_secret, participant_name, participant_name,
                           JoinOnlyGrants(room_name))
      eff2 == [eff1 EXCEPT !.constructed = TRUE, !.signing = signing]
  IN
  IF signing = "raises"
  THEN InternalError(eff2, "Error in legacy token endpoint: ", SigningErrorDetail)
  ELSE [response |-> text_response(to_jwt(token)), effects |-> eff2]

-----------------------------------------------------------------------------
(* The state machine *)

\* The configuration is read from the environment (and .env) at process start.
Init ==
  /\ env \in Environments
  /\ state = [i \in Slots |-> "idle"]
  /\ request = [i \in Slots |-> NoRequest]
  /\ response = [i \in Slots |-> NoResponse]
  /\ effects = [i \in Slots |-> NoEffects]

\* A client sends a request; Flask routes it to the handler of its endpoint.
Send(i, r) ==
  /\ state[i] = "idle"
  /\ state' = [state EXCEPT ![i] = "pending"]
  /\ request' = [request EXCEPT ![i] = r]
  /\ UNCHANGED <<env, response, effects>>

SendHealth(i) == Send(i, HealthRequest)
SendToken(i) == \E r \in TokenRequests : Send(i, r)
SendGetToken(i) == \E r \in GetTokenRequests : Send(i, r)

\* Variant: the handler stores the server URL it resolved back into os.environ.
ReturnSettingUrl(i, result) ==
  /\ state' = [state EXCEPT ![i] = "done"]
  /\ response' = [response EXCEPT ![i] = result.response]
  /\ effects' = [effects EXCEPT ![i] = result.effects]
  /\ env' = [env EXCEPT !.LIVEKIT_URL = IF @ = Absent THEN DefaultServerUrl ELSE @]
  /\ UNCHANGED request

\* The handler of slot i returns: its response and side effects are recorded,
\* and nothing else changes.
Return(i, result) ==
  /\ state' = [state EXCEPT ![i] = "done"]
  /\ response' = [response EXCEPT ![i] = result.response]
  /\ effects' = [effects EXCEPT ![i] = result.effects]
  /\ UNCHANGED <<env, request>>

health(i) ==
  /\ state[i] = "pending"
  /\ request[i].endpoint = "health"
  /\ Return(i, health_result)

generate_token(i) ==
  /\ state[i] = "pending"
  /\ request[i].endpoint = "token"
  /\ \E parsing \in ParserOutcomes(request[i].kind), signing \in SigningOutcomes :
       Return(i, generate_token_result(request[i], env, parsing, signing))

getToken(i) ==
  /\ state[i] = "pending"
  /\ request[i].endpoint = "getToken"
  /\ \E signing \in SigningOutcomes :
       Return(i, getToken_result(request[i], env, signing))

Next ==
  \E i \in Slots :
    \/ SendHealth(i)
    \/ SendToken(i)
    \/ SendGetToken(i)
    \/ health(i)
    \/ generate_token(i)
    \/ getToken(i)

Spec == Init /\ [][Next]_vars

\* Several requests in flight at once, handled in any order.  The requests are
\* one representative of each path through the handlers.
ConcurrentRequests ==
  { HealthRequest,
    [endpoint |-> "token", kind |-> "none", obj |-> EmptyObject, room |-> Absent, participant |-> Absent],
    [endpoint |-> "token", kind |-> "object",
     obj |-> [roomName |-> Absent, participantName |-> "alice", participantIdentity |-> Absent],
     room |-> Absent, participant |-> Absent],
    [endpoint |-> "token", kind |-> "object",
     obj |-> [roomName |-> "test-room", participantName |-> "alice", participantIdentity |-> Absent],
     room |-> Absent, participant |-> Absent],
    [endpoint |-> "getToken", kind |-> "query", obj |-> EmptyObject, room |-> Absent, participant |-> Absent],
    [endpoint |-> "getToken", kind |-> "query", obj |-> EmptyObject, room |-> "test-room", participant |-> "alice"] }

InitConcurrent ==
  /\ env \in Environments
  /\ state = [i \in ConcurrentSlots |-> "idle"]
  /\ request = [i \in ConcurrentSlots |-> NoRequest]
  /\ response = [i \in ConcurrentSlots |-> NoResponse]
  /\ effects = [i \in ConcurrentSlots |-> NoEffects]

SendConcurrent(i) == \E r \in ConcurrentRequests : Send(i, r)

NextConcurrent ==
  \E i \in ConcurrentSlots :
    \/ SendConcurrent(i)
    \/ health(i)
    \/ generate_token(i)
    \/ getToken(i)

SpecConcurrent == InitConcurrent /\ [][NextConcurrent]_vars


-----------------------------------------------------------------------------
(* Vocabulary of the properties *)

Done(i) == state[i] = "done"
OnToken(i) == Done(i) /\ request[i].endpoint = "token"
OnGetToken(i) == Done(i) /\ request[i].endpoint = "getToken"

\* A signing credential is configured: set, and not the empty string.
Configured(v) == v # Absent /\ v # ""
CredentialsConfigured == Configured(env.LIVEKIT_API_KEY) /\ Configured(env.LIVEKIT_API_SECRET)

\* The response of slot i carries a signed token.
TokenReturned(i) ==
  /\ Done(i)
  /\ \/ OnGetToken(i) /\ response[i].mimetype = "text/html"
     \/ OnToken(i) /\ "participantToken" \in DOMAIN response[i].body

ReturnedToken(i) ==
  IF request[i].endpoint = "token" THEN response[i].body.participantToken ELSE response[i].body

\* The claims (second segment) of the returned token.
Claims(i) == ReturnedToken(i)[2]

IsJsonError(i, status, message) ==
  response[i] = [status |-> status, mimetype |-> "application/json", body |-> [error |-> message]]

ValidationFailed(i) == IsJsonError(i, 400, "roomName and participantName are required")
NoJsonData(i) == IsJsonError(i, 400, "No JSON data provided")
ConfigurationError(i) == IsJsonError(i, 500, "Server configuration error")
InternalServerError(i) == IsJsonError(i, 500, "Internal server error")

\* A string value that is present and non-empty.
NonEmpty(v) == v # Absent /\ v # NoneVal /\ v # ""

\* The POST /token body of slot i is a JSON object with at least one key.
NonEmptyObjectBody(i) == request[i].kind = "object" /\ request[i].obj # EmptyObject
\* ... is any JSON value that is not empty: such an object, or a non-empty array.
NonEmptyJsonBody(i) == NonEmptyObjectBody(i) \/ request[i].kind = "array"
\* ... is missing, unparsable, or an empty JSON value.
MissingOrEmptyBody(i) ==
  \/ request[i].kind \in {"none", "null"}
  \/ request[i].kind = "object" /\ request[i].obj = EmptyObject

RequiredFieldMissing(i) ==
  ~NonEmpty(request[i].obj.roomName) \/ ~NonEmpty(request[i].obj.participantName)

-----------------------------------------------------------------------------
-----------------------------------------------------------------------------
\* C2 as stated: on POST /token, whenever roomName or participantName is empty
\* or absent in a non-empty JSON body, the request fails with the validation
\* error, before the credentials are read and before any signing.
C2_ValidationFirst_AnyJsonBody ==
  \A i \in DOMAIN state :
    (OnToken(i) /\ NonEmptyJsonBody(i) /\ RequiredFieldMissing(i)) =>
      /\ ValidationFailed(i)
      /\ ~effects[i].envRead
      /\ ~effects[i].constructed
      /\ effects[i].signing = "none"

\* C2 amended: on POST /token, whenever roomName or participantName is empty or
\* absent in a non-empty JSON object body, the request fails with the
\* validation error (400) and never with the configuration error, whatever the
\* credentials; the credentials are not read and nothing is constructed or signed.
C2_ValidationFirst ==
  \A i \in DOMAIN state :
    (OnToken(i) /\ NonEmptyObjectBody(i) /\ RequiredFieldMissing(i)) =>
      /\ ValidationFailed(i)
      /\ ~ConfigurationError(i)
      /\ ~effects[i].envRead
      /\ ~effects[i].constructed
      /\ effects[i].signing = "none"

C2_Witness ==
  \E i \in DOMAIN state :
    /\ OnToken(i) /\ NonEmptyObjectBody(i)
    /\ request[i].obj.roomName = "" /\ request[i].obj.participantName = "alice"
    /\ ~CredentialsConfigured
    /\ ValidationFailed(i)

-----------------------------------------------------------------------------
\* C3: on both endpoints, when the key id or the secret is missing or empty and
\* the request is otherwise valid, the response is 500 with
\* {"error": "Server configuration error"} and no token is constructed or signed.
OtherwiseValid(i) ==
  \/ OnGetToken(i)
  \/ OnToken(i) /\ NonEmptyObjectBody(i) /\ ~RequiredFieldMissing(i)

C3_ConfigurationError ==
  \A i \in DOMAIN state :
    (OtherwiseValid(i) /\ ~CredentialsConfigured) =>
      /\ ConfigurationError(i)
      /\ ~effects[i].constructed
      /\ effects[i].signing = "none"
      /\ ~TokenReturned(i)

C3_Witness ==
  /\ \E i \in DOMAIN state : OtherwiseValid(i) /\ ConfigurationError(i)
  /\ env.LIVEKIT_API_KEY = "APIkey" /\ env.LIVEKIT_API_SECRET = ""

-----------------------------------------------------------------------------
\* C4: a POST /token request whose JSON body is missing or empty always yields
\* 400 with {"error": "No JSON data provided"} and never a 500, also when the
\* body parser raises.
C4_NoJsonDataIs400 ==
  \A i \in DOMAIN state :
    (OnToken(i) /\ MissingOrEmptyBody(i)) => (NoJsonData(i) /\ response[i].status # 500)

-----------------------------------------------------------------------------
\* C5 as stated: every POST /token request with non-empty roomName and
\* participantName and configured credentials is answered 200 with exactly the
\* fields serverUrl, roomName, participantName and participantToken.
ConfiguredServerUrl ==
  IF env.LIVEKIT_URL = Absent THEN "ws://localhost:7880" ELSE env.LIVEKIT_URL

SuccessBody(i) ==
  /\ response[i].status = 200
  /\ response[i].mimetype = "application/json"
  /\ DOMAIN response[i].body = {"serverUrl", "roomName", "participantName", "participantToken"}
  /\ response[i].body.roomName = request[i].obj.roomName
  /\ response[i].body.participantName = request[i].obj.participantName
  /\ response[i].body.serverUrl = ConfiguredServerUrl
  /\ Len(response[i].body.participantToken) = 3
  /\ response[i].body.participantToken[3].signed_with = env.LIVEKIT_API_SECRET
  /\ "participantIdentity" \notin DOMAIN response[i].body

ValidTokenRequest(i) ==
  /\ OnToken(i) /\ request[i].kind = "object"
  /\ NonEmpty(request[i].obj.roomName) /\ NonEmpty(request[i].obj.participantName)
  /\ CredentialsConfigured

-----------------------------------------------------------------------------
-----------------------------------------------------------------------------
\* C7: every token issued by POST /token carries room join, publish, subscribe
\* and publish-data, all true, scoped to the requested room; every token issued
\* by GET /getToken carries only room join scoped to the requested room, the
\* other three grants being omitted; neither endpoint issues the other's grants.
RequestedRoom(i) ==
  IF request[i].endpoint = "token" THEN request[i].obj.roomName
  ELSE IF request[i].room = Absent THEN "my-room" ELSE request[i].room

-----------------------------------------------------------------------------
\* C8: on both endpoints an exception raised while constructing or signing the
\* token is answered 500 with {"error": "Internal server error"}; its detail is
\* logged at error level, is not in the response, and no token is returned.
C8_ExceptionIsInternalError ==
  \A i \in DOMAIN state :
    (Done(i) /\ effects[i].signing = "raises") =>
      /\ InternalServerError(i)
      /\ \A f \in DOMAIN response[i].body : response[i].body[f] # SigningErrorDetail
      /\ ~TokenReturned(i)
      /\ \E n \in DOMAIN effects[i].log :
           /\ effects[i].log[n].level = "error"
           /\ \E k \in DOMAIN effects[i].log[n].msg : effects[i].log[n].msg[k] = SigningErrorDetail

C8_Witness ==
  \E i \in DOMAIN state :
    /\ OnGetToken(i) /\ effects[i].signing = "raises" /\ InternalServerError(i)
    /\ effects[i].log = <<[level |-> "error",
                           msg |-> <<"Error in legacy token endpoint: ", SigningErrorDetail>>]>>

-----------------------------------------------------------------------------
\* C9 as stated: every token-issuing request produces exactly one log line, an
\* info line naming participant and room on success and an error line on every
\* failure path, on both endpoints.
IssuesTokens(i) == OnToken(i) \/ OnGetToken(i)

Mentions(line, v) == \E k \in DOMAIN line.msg : line.msg[k] = v

-----------------------------------------------------------------------------
\* C10: under any interleaving of concurrent requests to /health, /token and
\* /getToken, each response is determined by the request's own inputs and the
\* configuration (and the outcome of its own library calls): requests with equal
\* inputs get equal responses whatever else is in flight, a handler changes
\* nothing but its own request's response and effects, an answered request is
\* never altered by another, and no request changes the configuration.
SameInputs(i, j) ==
  /\ request[i] = request[j]
  /\ effects[i].parser = effects[j].parser
  /\ effects[i].signing = effects[j].signing

ResponsesAgree ==
  \A i, j \in DOMAIN state :
    (Done(i) /\ Done(j) /\ SameInputs(i, j)) =>
      (response[i] = response[j] /\ effects[i] = effects[j])

Untouched(j) ==
  /\ state'[j] = state[j]
  /\ request'[j] = request[j]
  /\ response'[j] = response[j]
  /\ effects'[j] = effects[j]

Isolated ==
  /\ env' = env
  /\ \A i \in DOMAIN state : Done(i) => Untouched(i)
  /\ \A i, j \in DOMAIN state : (i # j /\ state'[i] # state[i]) => Untouched(j)
  /\ \A i \in DOMAIN state : (state[i] = "pending" /\ state'[i] = "done") => request'[i] = request[i]

C10_RequestsIndependent == []ResponsesAgree /\ [][Isolated]_vars

\* Two slots carried equal requests, both were answered with a token, and the answers agree.
C10_Witness ==
  \E i, j \in DOMAIN state :
    /\ i # j /\ OnToken(i) /\ OnToken(j) /\ SameInputs(i, j)
    /\ TokenReturned(i) /\ response[i] = response[j]

=============================================================================
